---- MODULE Spec2Model ----
(***************************************************************************)
(* The in-memory partition-table model of Artixide and its editor:         *)
(*   src/src/tui/data/partition.rs           the data model                *)
(*   src/src/tui/data/partition/impls.rs     Device::new_from,             *)
(*                                           fill_free_space, NumberPool,  *)
(*                                           DiskSpace::expand_*           *)
(*   src/src/tui/views/partition/editor.rs   handle_create, handle_delete  *)
(*                                                                         *)
(* Indices into mem_table are the 0-based indices of the Rust Vec; the     *)
(* TLA+ sequence holds entry i at position i + 1.                          *)
(***************************************************************************)
EXTENDS Integers, Sequences, FiniteSets, TLC

VARIABLES
    pc,             \* "start": devices not fetched; "ready"; "panicked": the process aborted
    disk,           \* CompatDevice.disk (starting_lba, ending_lba, sector_size, is_gpt)
    mem_table,      \* CompatDevice.mem_table: Vec<MemTableEntry>
    number_pool,    \* NumberPool.inner, as the set of indices i with inner[i] = true
    last_selected,  \* DiskEditor.last_selected (-1 is None)
    focus,          \* DiskEditor.focus: "Menu" or "Create"
    create_error,   \* DiskEditor.create_error ("none" is None)
    op,             \* the handler that changed the device last, or the panic message
    blockdevices,   \* LsblkResult.blockdevices as get_devices_listed received it
    devices,        \* PartitionView.devices: kind and path of each Device; disk,
                    \* mem_table and number_pool are those of devices[current_device]
    view            \* the widgets of the partition view: PartitionView.focus and
                    \* table, DiskEditor.items, menu and input

vars == <<pc, disk, mem_table, number_pool, last_selected, focus, create_error, op,
          blockdevices, devices, view>>

----------------------------------------------------------------------------
(* Program constants *)

DEFAULT_ALIGN == 2048

PoolSize == 256

ERR_PARSE_SIZE == "Failed to parse size"
ERR_INVALID_SIZE == "Invalid size"
ERR_OVER_SIZE == "No enough size"

----------------------------------------------------------------------------
(* Bounds of the model *)

\* Size of the modelled disks, in units of Grain sectors.
DiskGrains == 5

\* Most child partitions lsblk reports for the disk.
MaxChildren == 2

\* Highest partition number found on disk.
MaxPartn == MaxChildren + 1

\* Create is followed only while the number it allocates is among this many
\* lowest or this many highest numbers of the pool.
MaxNumber == 2

\* On-disk partitions start and end on multiples of half the alignment, so
\* that aligned and unaligned boundaries both occur.
Grain == DEFAULT_ALIGN \div 2

SectorSizes == {512}

\* first_usable_lba of the GPT headers read (34 = 1 protective MBR sector,
\* 1 header sector, 32 sectors of entries).
GptFirstUsable == {34}

----------------------------------------------------------------------------
(* Helpers *)

\* u64::saturating_sub
saturating_sub(a, b) == IF a > b THEN a - b ELSE 0

IsPartition(e) == e.kind = "Partition"
IsFree(e) == e.kind = "Free"

\* MemTableEntry::Partition(MemPartition {number, start, end, sectors, size, ..})
MemPartition(number, start, end, sectors, size) ==
    [kind |-> "Partition", number |-> number, start |-> start, end |-> end,
     sectors |-> sectors, size |-> size]

\* MemTableEntry::Free(DiskSpace {start, end, sectors, size, ..})
DiskSpace(start, end, sectors, size) ==
    [kind |-> "Free", number |-> 0, start |-> start, end |-> end,
     sectors |-> sectors, size |-> size]

\* A removal that takes the entry after the one asked for, where there is one.
RemoveAt_next(s, i) ==
    IF i + 2 <= Len(s) THEN SubSeq(s, 1, i + 1) \o SubSeq(s, i + 3, Len(s))
    ELSE SubSeq(s, 1, i)

\* Vec::remove(i), 0-based
RemoveAt(s, i) == SubSeq(s, 1, i) \o SubSeq(s, i + 2, Len(s))

\* Vec::insert(i, e), 0-based
InsertAt(s, i, e) == SubSeq(s, 1, i) \o <<e>> \o SubSeq(s, i + 1, Len(s))

\* Insertion of x into an ascending sequence of integers.
RECURSIVE InsertInt(_, _)
InsertInt(s, x) ==
    IF s = <<>> THEN <<x>>
    ELSE IF x <= Head(s) THEN <<x>> \o s
    ELSE <<Head(s)>> \o InsertInt(Tail(s), x)

\* positions.sort_unstable()
RECURSIVE SortInts(_)
SortInts(s) == IF s = <<>> THEN <<>> ELSE InsertInt(SortInts(Tail(s)), Head(s))

\* Insertion of entry e into a sequence ascending by start.
RECURSIVE InsertByStart(_, _)
InsertByStart(s, e) ==
    IF s = <<>> THEN <<e>>
    ELSE IF e.start <= Head(s).start THEN <<e>> \o s
    ELSE <<Head(s)>> \o InsertByStart(Tail(s), e)

\* entries.sort_unstable_by_key(|e| e.start()); the starts of the entries of
\* one table are pairwise different, so the order is determined.
RECURSIVE SortByStart(_)
SortByStart(s) ==
    IF s = <<>> THEN <<>> ELSE InsertByStart(SortByStart(Tail(s)), Head(s))

\* entries.retain(|entry| matches!(entry, MemTableEntry::Partition(_)))
RECURSIVE RetainPartitions(_)
RetainPartitions(s) ==
    IF s = <<>> THEN <<>>
    ELSE IF IsPartition(Head(s)) THEN <<Head(s)>> \o RetainPartitions(Tail(s))
    ELSE RetainPartitions(Tail(s))

\* .flat_map(|part| [part.start, part.end]) over the partitions of the table
RECURSIVE PartitionBounds(_)
PartitionBounds(s) ==
    IF s = <<>> THEN <<>>
    ELSE IF IsPartition(Head(s))
         THEN <<Head(s).start, Head(s).end>> \o PartitionBounds(Tail(s))
         ELSE PartitionBounds(Tail(s))

----------------------------------------------------------------------------
(* CompatDevice::fill_free_space *)

\* GapSpace without the alignment: the Free entry starts right behind start.
GapSpace_unaligned(d, start, end) ==
    LET sectors0 == end - start - 1
    IN  IF sectors0 = 0 THEN <<>>
        ELSE <<DiskSpace(start + 1, end - 1, sectors0,
                         sectors0 * d.sector_size)>>

\* GapSpace with one more alignment unit of padding than the gap needs.
GapSpace_extra_unit(d, start, end) ==
    LET sectors0 == end - start - 1
        first_usable == start + 1
        padding == (start \div DEFAULT_ALIGN + 2) * DEFAULT_ALIGN - first_usable
        sectors == saturating_sub(sectors0, padding)
    IN  IF sectors0 = 0 THEN <<>>
        ELSE IF sectors = 0 THEN <<>>
        ELSE <<DiskSpace(first_usable + padding, end - 1, sectors,
                         sectors * d.sector_size)>>

\* The closure of positions.chunks(2).filter_map: the Free entry of one gap,
\* as a sequence of zero or one entry.  The partitions of a table share no
\* sector and lie inside the sentinels, so end > start in every chunk and the
\* u64 subtraction end - start - 1 does not wrap.
GapSpace(d, start, end) ==
    LET sectors0 == end - start - 1
        first_usable == start + 1
        padding == (start \div DEFAULT_ALIGN + 1) * DEFAULT_ALIGN - first_usable
        sectors == saturating_sub(sectors0, padding)
    IN  IF sectors0 = 0 THEN <<>>
        ELSE IF sectors = 0 THEN <<>>
        ELSE <<DiskSpace(first_usable + padding, end - 1, sectors,
                         sectors * d.sector_size)>>

RECURSIVE Spaces(_, _)
Spaces(d, positions) ==
    IF Len(positions) < 2 THEN <<>>
    ELSE GapSpace(d, positions[1], positions[2])
         \o Spaces(d, SubSeq(positions, 3, Len(positions)))

\* The sort at the end of fill_free_space, run only when the length changed.
SortIfLenChanged(entries, len) ==
    IF Len(entries) # len THEN SortByStart(entries) ELSE entries

fill_free_space(d, entries) ==
    LET len == Len(entries)
        positions == SortInts(<<d.starting_lba>> \o PartitionBounds(entries)
                              \o <<d.ending_lba>>)
        spaces == Spaces(d, positions)
    IN  SortIfLenChanged(RetainPartitions(entries) \o spaces, len)

----------------------------------------------------------------------------
(* NumberPool *)

\* A search that hands out number 1 again where no slot is unused.
find_available_num_wraps(pool) ==
    IF \E i \in 0..(PoolSize - 1) : i \notin pool
    THEN 1 + CHOOSE i \in 0..(PoolSize - 1) :
                 i \notin pool /\ \A j \in 0..(i - 1) : j \in pool
    ELSE 1

\* NumberPool::find_available_num: the number found (0 is None)
find_available_num(pool) ==
    IF \E i \in 0..(PoolSize - 1) : i \notin pool
    THEN 1 + CHOOSE i \in 0..(PoolSize - 1) :
                 i \notin pool /\ \A j \in 0..(i - 1) : j \in pool
    ELSE 0

\* NumberPool::set_used
set_used(pool, index) == pool \cup {index}

\* A search that reports the number it found and leaves the slot unmarked.
find_available_no_mark(pool) ==
    [number |-> find_available_num(pool), pool |-> pool]

\* NumberPool::find_available_num with its effect on the pool: the slot of
\* the number found is marked before the number is returned.
find_available(pool) ==
    LET number == find_available_num(pool)
    IN  [number |-> number,
         pool |-> IF number = 0 THEN pool ELSE set_used(pool, number - 1)]

\* NumberPool::set_unused
set_unused(pool, index) == pool \ {index}

----------------------------------------------------------------------------
(* DiskSpace::expand_right / expand_left.  ok is the assert! of the method. *)

\* expand_right that adds the sectors but not the bytes.
expand_right_keep_size(self, val) ==
    [ok |-> val.start = self.end + 1,
     space |-> [self EXCEPT !.end = val.end,
                            !.sectors = self.sectors + val.sectors]]

expand_right(self, val) ==
    [ok |-> val.start = self.end + 1,
     space |-> [self EXCEPT !.end = val.end,
                            !.sectors = self.sectors + val.sectors,
                            !.size = self.size + val.size]]

\* An expansion that moves the start and leaves the sector count.
expand_left_keep_sectors(self, val) ==
    [ok |-> val.end = self.start - 1,
     space |-> [self EXCEPT !.start = val.start,
                            !.size = self.size + val.size]]

\* DiskSpace::expand_left
expand_left(self, val) ==
    [ok |-> val.end = self.start - 1,
     space |-> [self EXCEPT !.start = val.start,
                            !.sectors = self.sectors + val.sectors,
                            !.size = self.size + val.size]]

----------------------------------------------------------------------------
(* Device::new_from on one lsblk descriptor *)

\* MemPartition::from_raw: None (<<>>) for a child that is no partition.
from_raw(child, sector_size) ==
    LET sectors == child.size \div sector_size
    IN  IF child.devtype # "part" THEN <<>>
        ELSE <<MemPartition(child.partn, child.start,
                            child.start + sectors - 1, sectors, child.size)>>

\* Sentinels that are the first and the last usable sector themselves.
Sentinels_not_widened(dev) ==
    IF dev.pttype = "gpt"
    THEN [starting_lba |-> dev.first_usable_lba,
          ending_lba |-> dev.last_usable_lba]
    ELSE [starting_lba |-> 0, ending_lba |-> (dev.size \div dev.log_sec) - 1]

\* starting_lba and ending_lba: the GPT header's usable range widened by one
\* on each side, or the whole device for a dos table.
Sentinels(dev) ==
    IF dev.pttype = "gpt"
    THEN [starting_lba |-> dev.first_usable_lba - 1,
          ending_lba |-> dev.last_usable_lba + 1]
    ELSE [starting_lba |-> 0, ending_lba |-> dev.size \div dev.log_sec]

RECURSIVE SeedPool(_, _)
SeedPool(pool, parts) ==
    IF parts = <<>> THEN pool
    ELSE SeedPool(set_used(pool, Head(parts).number - 1), Tail(parts))

\* The Disk new_from builds.
disk_of(dev) ==
    LET s == Sentinels(dev)
    IN  [starting_lba |-> s.starting_lba, ending_lba |-> s.ending_lba,
         sector_size |-> dev.log_sec, is_gpt |-> dev.pttype = "gpt"]

\* A closure that keeps the mounted children as well.
child_partition_keeps_mounted(child, sector_size) ==
    IF child.devtype # "part" THEN <<>>
    ELSE <<MemPartition(child.partn, child.start,
                        child.start + (child.size \div sector_size) - 1,
                        child.size \div sector_size, child.size)>>

\* The closure of filter_map over the children: nothing for a mounted child,
\* else what from_raw gives.
child_partition(child, sector_size) ==
    IF child.mountpoint # "none" THEN <<>> ELSE from_raw(child, sector_size)

\* The mem_table new_from collects from the children, before fill_free_space.
RECURSIVE collect_partitions(_, _)
collect_partitions(children, sector_size) ==
    IF children = <<>> THEN <<>>
    ELSE child_partition(Head(children), sector_size)
         \o collect_partitions(Tail(children), sector_size)

partitions_of(dev) == collect_partitions(dev.children, dev.log_sec)

\* The CompatDevice new_from builds of a disk with a gpt or dos table whose
\* header was read: disk, mem_table, number_pool.
compatible(dev) ==
    [kind |-> "Compatible", path |-> dev.path,
     disk |-> disk_of(dev),
     mem_table |-> fill_free_space(disk_of(dev), partitions_of(dev)),
     number_pool |-> SeedPool({}, partitions_of(dev))]

\* Device::new_from: Ok(None), Ok(Some(Incompatible)), Ok(Some(Compatible)),
\* Err where the GPT header cannot be read, or the panic of dev.model.unwrap().
new_from(dev) ==
    IF dev.devtype # "disk" THEN [kind |-> "None"]
    ELSE IF dev.model = "none" THEN [kind |-> "Panic"]
    ELSE IF dev.pttype \notin {"gpt", "dos"}
    THEN [kind |-> "Incompatible", path |-> dev.path, size |-> dev.size,
          sector_size |-> dev.log_sec]
    ELSE IF dev.pttype = "gpt" /\ dev.gpt_read # "ok" THEN [kind |-> "Err"]
    ELSE compatible(dev)

----------------------------------------------------------------------------
(* The descriptors lsblk and the GPT reader hand to new_from *)

TotalSectors == DiskGrains * Grain

\* [a, b]: a child occupying sectors a * Grain .. b * Grain - 1
Intervals(lo, hi) ==
    {iv \in (1..DiskGrains) \X (1..DiskGrains) :
        /\ iv[1] < iv[2]
        /\ iv[1] * Grain >= lo
        /\ iv[2] * Grain - 1 <= hi}

\* Children in any order; no two share a sector.
DisjointSeqs(lo, hi, k) ==
    {f \in [1..k -> Intervals(lo, hi)] :
        \A i, j \in 1..k : i < j => (f[i][2] <= f[j][1] \/ f[j][2] <= f[i][1])}

\* Partition numbers of k children: lsblk lists the children of a disk by
\* name, that is by ascending partition number.
PartnSeqs(k) ==
    {f \in [1..k -> 1..MaxPartn] : \A i, j \in 1..k : i < j => f[i] < f[j]}

ChildrenLists(lo, hi, sector_size) ==
    UNION {
        {[i \in 1..k |-> [devtype |-> "part", mountpoint |-> "none",
                          partn |-> nm[i],
                          start |-> iv[i][1] * Grain,
                          size |-> (iv[i][2] - iv[i][1]) * Grain * sector_size]] :
            iv \in DisjointSeqs(lo, hi, k), nm \in PartnSeqs(k)} :
        k \in 0..MaxChildren}

GptDevices(ss, fu) ==
    {[path |-> "/dev/sda", devtype |-> "disk", model |-> "model",
      pttype |-> "gpt", gpt_read |-> "ok",
      log_sec |-> ss, size |-> TotalSectors * ss,
      first_usable_lba |-> fu, last_usable_lba |-> TotalSectors - fu,
      children |-> ch] :
        ch \in ChildrenLists(fu, TotalSectors - fu, ss)}

DosDevices(ss) ==
    {[path |-> "/dev/sda", devtype |-> "disk", model |-> "model",
      pttype |-> "dos", gpt_read |-> "ok",
      log_sec |-> ss, size |-> TotalSectors * ss,
      first_usable_lba |-> 0, last_usable_lba |-> 0,
      children |-> ch] :
        ch \in ChildrenLists(1, TotalSectors - 1, ss)}

BlockDevices ==
    UNION {DosDevices(ss) \cup UNION {GptDevices(ss, fu) : fu \in GptFirstUsable} :
           ss \in SectorSizes}

----------------------------------------------------------------------------
(* The text of the size input when Enter submits it: a sequence of         *)
(* characters, each a string of length one                                 *)

DigitChars == <<"0", "1", "2", "3", "4", "5", "6", "7", "8", "9">>

\* itoa: the decimal digits of n.
RECURSIVE Digits(_)
Digits(n) ==
    IF n < 10 THEN <<DigitChars[n + 1]>>
    ELSE Digits(n \div 10) \o <<DigitChars[(n % 10) + 1]>>

\* The texts submitted.  Input turns Enter on an empty buffer into Cancel, so
\* no text is empty.  The sector counts that fit a Free region are Grain and
\* DEFAULT_ALIGN.
SizeTexts ==
    {<<"*">>, <<" ">>, <<"s">>, <<"x">>,
     <<"0", "s">>,
     Digits(Grain) \o <<" ", "s">>,
     Digits(DEFAULT_ALIGN) \o <<"S">>,
     Digits(TotalSectors) \o <<"s">>,
     Digits(Grain \div 4),
     Digits(Grain \div 2) \o <<"K", "i", "B">>}

\* The texts typed into the size input key by key: all of the region, a
\* blank, a count of 0 sectors and a count of DEFAULT_ALIGN sectors.
TypedTexts ==
    {<<"*">>, <<" ">>, <<"0", "s">>, Digits(DEFAULT_ALIGN) \o <<"S">>}

\* What the size input holds while one of them is typed: their prefixes.
\* Enter submits a prefix as well.
InputTexts == UNION {{SubSeq(t, 1, n) : n \in 0..Len(t)} : t \in TypedTexts}

----------------------------------------------------------------------------
(* DiskEditor::handle_delete *)

\* handle_delete that removes the partition and leaves no Free region for it.
delete_entries_drop(table, selected) ==
    [ok |-> TRUE, table |-> RemoveAt(table, selected)]

\* handle_delete without the merge with the Free neighbours: the partition
\* always becomes a Free region of its own.
delete_entries_no_merge(table, selected) ==
    LET part == table[selected + 1]
    IN  [ok |-> TRUE,
         table |-> [table EXCEPT ![selected + 1] =
                       DiskSpace(part.start, part.end, part.sectors,
                                 part.size)]]

\* The match on (is_prev_free, is_next_free): the table it leaves, and ok,
\* whether every assert! of expand_right / expand_left held.
delete_entries(table, selected) ==
    LET is_prev_free == selected >= 1 /\ IsFree(table[selected])
        is_next_free == selected + 1 < Len(table) /\ IsFree(table[selected + 2])
        part == table[selected + 1]
        removed == RemoveAt(table, selected)
    IN  IF is_prev_free /\ is_next_free
        THEN LET r1 == expand_right(table[selected], part)
                 r2 == expand_right(r1.space, table[selected + 2])
             IN  [ok |-> r1.ok /\ r2.ok,
                  table |-> [RemoveAt(removed, selected)
                                EXCEPT ![selected] = r2.space]]
        ELSE IF is_prev_free
        THEN LET r == expand_right(table[selected], part)
             IN  [ok |-> r.ok, table |-> [removed EXCEPT ![selected] = r.space]]
        ELSE IF is_next_free
        THEN LET r == expand_left(removed[selected + 1], part)
             IN  [ok |-> r.ok,
                  table |-> [removed EXCEPT ![selected + 1] = r.space]]
        ELSE [ok |-> TRUE,
              table |-> [table EXCEPT ![selected + 1] =
                            DiskSpace(part.start, part.end, part.sectors,
                                      part.size)]]

\* The index handle_delete passes to number_pool.set_unused.
released_index(table, selected) == selected

\* Enter on "Delete partition" in the editor menu, the entry selected in the
\* table being a Partition.
handle_delete(selected) ==
    /\ pc = "ready"
    /\ focus = "Menu"
    /\ selected \in 0..(Len(mem_table) - 1)
    /\ IsPartition(mem_table[selected + 1])
    /\ last_selected' = selected
    /\ LET r == delete_entries(mem_table, selected)
           index == released_index(mem_table, selected)
       IN  IF r.ok /\ index < PoolSize
           THEN /\ mem_table' = r.table
                /\ number_pool' = set_unused(number_pool, index)
                /\ op' = "delete"
                /\ pc' = "ready"
           ELSE \* assert! failed, or the Vec was indexed out of range
                /\ op' = IF r.ok THEN "index out of bounds"
                         ELSE "Not a sibling space"
                /\ pc' = "panicked"
                /\ UNCHANGED <<mem_table, number_pool>>
    /\ UNCHANGED <<disk, focus, create_error, blockdevices, devices, view>>

----------------------------------------------------------------------------
(* DiskEditor::handle_menu and handle_create *)

\* Enter on "Create partition" in the editor menu, the entry selected in the
\* table being a Free region.
handle_menu_create(selected) ==
    /\ pc = "ready"
    /\ focus = "Menu"
    /\ selected \in 0..(Len(mem_table) - 1)
    /\ IsFree(mem_table[selected + 1])
    /\ last_selected' = selected
    /\ focus' = "Create"
    /\ UNCHANGED <<pc, disk, mem_table, number_pool, create_error, op,
                   blockdevices, devices, view>>

\* char::is_whitespace, on the characters of the texts submitted.
is_whitespace(c) == c = " "

\* char::is_ascii_digit
is_ascii_digit(c) == \E i \in 1..10 : DigitChars[i] = c

\* char::to_ascii_lowercase, on the letters of the texts submitted.
to_lowercase(c) ==
    CASE c = "S" -> "s"
      [] c = "K" -> "k"
      [] c = "I" -> "i"
      [] c = "B" -> "b"
      [] OTHER -> c

RECURSIVE trim_start(_)
trim_start(s) ==
    IF s # <<>> /\ is_whitespace(Head(s)) THEN trim_start(Tail(s)) ELSE s

RECURSIVE trim_end(_)
trim_end(s) ==
    IF s # <<>> /\ is_whitespace(s[Len(s)])
    THEN trim_end(SubSeq(s, 1, Len(s) - 1))
    ELSE s

\* str::trim
trim(s) == trim_end(trim_start(s))

\* The number a sequence of decimal digits writes.
RECURSIVE DigitsValue(_)
DigitsValue(s) ==
    IF s = <<>> THEN 0
    ELSE DigitsValue(SubSeq(s, 1, Len(s) - 1)) * 10
         + (CHOOSE i \in 1..10 : DigitChars[i] = s[Len(s)]) - 1

\* str::parse::<u64>: an optional '+' and at least one digit, nothing else.
\* No text submitted has enough digits to overflow a u64.
parse_u64(s) ==
    LET body == IF s # <<>> /\ Head(s) = "+" THEN Tail(s) ELSE s
    IN  IF body # <<>> /\ \A i \in 1..Len(body) : is_ascii_digit(body[i])
        THEN [ok |-> TRUE, v |-> DigitsValue(body)]
        ELSE [ok |-> FALSE, v |-> 0]

\* The leading digits of s (no text submitted has a decimal point).
RECURSIVE take_while_number(_)
take_while_number(s) ==
    IF s # <<>> /\ is_ascii_digit(Head(s))
    THEN <<Head(s)>> \o take_while_number(Tail(s))
    ELSE <<>>

\* s without its leading digits and whitespace.
RECURSIVE skip_while_number(_)
skip_while_number(s) ==
    IF s # <<>> /\ (is_whitespace(Head(s)) \/ is_ascii_digit(Head(s)))
    THEN skip_while_number(Tail(s))
    ELSE s

\* The multiplier of a unit suffix of the bytesize library, 0 for a text that
\* is no unit.
unit_bytes(suffix) ==
    LET u == [i \in 1..Len(suffix) |-> to_lowercase(suffix[i])]
    IN  CASE u = <<"b">> -> 1
          [] u \in {<<"k">>, <<"k", "b">>} -> 1000
          [] u \in {<<"k", "i">>, <<"k", "i", "b">>} -> 1024
          [] OTHER -> 0

\* ByteSize::from_str of the bytesize library: a plain u64, or a number
\* followed by a unit.
ByteSize_from_str(s) ==
    IF parse_u64(s).ok THEN parse_u64(s)
    ELSE IF take_while_number(s) = <<>> THEN [ok |-> FALSE, v |-> 0]
    ELSE IF unit_bytes(skip_while_number(s)) = 0 THEN [ok |-> FALSE, v |-> 0]
    ELSE [ok |-> TRUE,
          v |-> DigitsValue(take_while_number(s))
                * unit_bytes(skip_while_number(s))]

\* What handle_create makes of the text: "star" for "*", "panic" where
\* char_indices().last() is None and unwrap panics, "unparsable" where the
\* parse fails, else "sectors" with the sector count.
resolve_sectors(text, sector_size) ==
    LET input == trim(text)
        last_char_index == Len(input) - 1
        c == input[Len(input)]
        s == parse_u64(trim(SubSeq(input, 1, last_char_index)))
        size == ByteSize_from_str(input)
    IN  IF input = <<"*">> THEN [kind |-> "star", n |-> 0]
        ELSE IF input = <<>> THEN [kind |-> "panic", n |-> 0]
        ELSE IF to_lowercase(c) = "s"
        THEN IF s.ok THEN [kind |-> "sectors", n |-> s.v]
             ELSE [kind |-> "unparsable", n |-> 0]
        ELSE IF size.ok THEN [kind |-> "sectors", n |-> size.v \div sector_size]
        ELSE [kind |-> "unparsable", n |-> 0]

\* remaining_space with the padding computed from start instead of start - 1:
\* a remainder that starts on the alignment loses a whole alignment unit.
remaining_space_pad_from_start(end, space_end, remaining, sector_size) ==
    LET start == end + 1
        padding == (start \div DEFAULT_ALIGN + 1) * DEFAULT_ALIGN - start
        sectors == saturating_sub(remaining, padding)
    IN  IF sectors > 0
        THEN <<DiskSpace(start + padding, space_end, sectors,
                         sectors * sector_size)>>
        ELSE <<>>

\* The Free region left behind a partition that ends at end inside a Free
\* region that ended at space_end, as zero or one entry.
remaining_space(end, space_end, remaining, sector_size) ==
    LET start == end + 1
        padding == ((start - 1) \div DEFAULT_ALIGN + 1) * DEFAULT_ALIGN - start
        sectors == saturating_sub(remaining, padding)
    IN  IF sectors > 0
        THEN <<DiskSpace(start + padding, space_end, sectors,
                         sectors * sector_size)>>
        ELSE <<>>

\* A create that puts the new partition in front of the Free region and
\* leaves the Free region as it was.
create_entries_keep_space(d, table, selected, sectors, number) ==
    LET space == table[selected + 1]
    IN  InsertAt(table, selected,
                 MemPartition(number, space.start, space.start + sectors - 1,
                              sectors, sectors * d.sector_size))

\* The table after a create of sectors sectors numbered number at selected.
create_entries(d, table, selected, sectors, number) ==
    LET space == table[selected + 1]
        remaining == space.sectors - sectors
        has_remaining == remaining > 0
        end == IF has_remaining THEN space.start + sectors - 1 ELSE space.end
        size == IF has_remaining THEN sectors * d.sector_size ELSE space.size
        part == MemPartition(number, space.start, end, sectors, size)
        rest == IF has_remaining
                THEN remaining_space(end, space.end, remaining, d.sector_size)
                ELSE <<>>
        inserted == IF rest = <<>> THEN table
                    ELSE InsertAt(table, selected + 1, rest[1])
    IN  [inserted EXCEPT ![selected + 1] = part]

\* A create of the whole region that puts the partition in front of the Free
\* region instead of in its place.
create_all_insert(table, selected, number) ==
    LET space == table[selected + 1]
    IN  InsertAt(table, selected,
                 MemPartition(number, space.start, space.end, space.sectors,
                              space.size))

\* The table after a create with the size text "*".
create_all(table, selected, number) ==
    LET space == table[selected + 1]
    IN  [table EXCEPT ![selected + 1] =
            MemPartition(number, space.start, space.end, space.sectors,
                         space.size)]

\* The checks without the upper limit: a count larger than the region passes.
size_error_no_limit(sectors, free_sectors) ==
    IF sectors = 0 THEN ERR_INVALID_SIZE ELSE "none"

\* The checks without the lower limit: a count of 0 passes.
size_error_zero_passes(sectors, free_sectors) ==
    IF sectors > free_sectors THEN ERR_OVER_SIZE ELSE "none"

\* The two checks of the resolved sector count: the error shown, "none" for
\* a count that passes.
size_error(sectors, free_sectors) ==
    IF sectors = 0 THEN ERR_INVALID_SIZE
    ELSE IF sectors > free_sectors THEN ERR_OVER_SIZE
    ELSE "none"

\* resolve_sectors of every text submitted, for every sector size.
Resolved ==
    [ss \in SectorSizes |->
        [t \in SizeTexts \cup InputTexts |-> resolve_sectors(t, ss)]]

\* What one submitted size text does: the error shown, whether the create
\* went through, whether the handler panicked, and the table and pool it
\* leaves.
create_outcome(d, table, pool, selected, text) ==
    LET space == table[selected + 1]
        number == find_available_num(pool)
        parsed == Resolved[d.sector_size][text]
        sectors == parsed.n
        keep(err) == [error |-> err, done |-> FALSE, panic |-> FALSE,
                      table |-> table, pool |-> pool]
    IN  IF parsed.kind = "star"
        THEN IF number = 0 THEN keep("none")
             ELSE [error |-> "none", done |-> TRUE, panic |-> FALSE,
                   table |-> create_all(table, selected, number),
                   pool |-> set_used(pool, number - 1)]
        ELSE IF parsed.kind = "panic"
        THEN [keep("none") EXCEPT !.panic = TRUE]
        ELSE IF parsed.kind = "unparsable"
        THEN keep(ERR_PARSE_SIZE)
        ELSE IF size_error(sectors, space.sectors) # "none"
        THEN keep(size_error(sectors, space.sectors))
        ELSE IF number = 0 THEN keep("none")
        ELSE [error |-> "none", done |-> TRUE, panic |-> FALSE,
              table |-> create_entries(d, table, selected, sectors, number),
              pool |-> set_used(pool, number - 1)]

\* Enter in the size input, the buffer holding text.
handle_create(text) ==
    /\ pc = "ready"
    /\ focus = "Create"
    /\ LET r == create_outcome(disk, mem_table, number_pool, last_selected,
                               text)
           number == find_available_num(number_pool)
       IN  /\ r.done => (number <= MaxNumber \/ number > PoolSize - MaxNumber)
           /\ create_error' = r.error
           /\ mem_table' = r.table
           /\ number_pool' = r.pool
           /\ op' = IF r.panic THEN "unwrap on None"
                    ELSE IF r.done THEN "create" ELSE op
           /\ pc' = IF r.panic THEN "panicked" ELSE pc
           /\ focus' = IF r.done THEN "Menu" ELSE "Create"
    /\ UNCHANGED <<disk, last_selected, blockdevices, devices, view>>

\* Esc in the size input (InputCommand::Cancel).
handle_create_cancel ==
    /\ pc = "ready"
    /\ focus = "Create"
    /\ create_error' = "none"
    /\ focus' = "Menu"
    /\ UNCHANGED <<pc, disk, mem_table, number_pool, last_selected, op,
                   blockdevices, devices, view>>

----------------------------------------------------------------------------
(* SelectableWidget (the table and the editor menu) and Input *)

\* A SelectableWidget: state.selected() (-1 is None) and last_items_len.
Widget(selected, len) == [selected |-> selected, last_items_len |-> len]

\* update_state without the min(len - 1): a selection is kept whatever the
\* new length is.
update_state_no_clamp(w, len) ==
    IF len = w.last_items_len THEN w
    ELSE IF len = 0 THEN Widget(-1, len)
    ELSE Widget(IF w.selected = -1 THEN 0 ELSE w.selected, len)

\* SelectableWidget::update_state, called by every render with the number
\* of items rendered.
update_state(w, len) ==
    IF len = w.last_items_len THEN w
    ELSE IF len = 0 THEN Widget(-1, len)
    ELSE LET cur == IF w.selected = -1 THEN 0 ELSE w.selected
         IN  Widget(IF cur < len - 1 THEN cur ELSE len - 1, len)

select_first_item(w) ==
    IF w.selected # -1 THEN [w EXCEPT !.selected = 0] ELSE w

select_last_item(w) ==
    IF w.selected # -1 THEN [w EXCEPT !.selected = w.last_items_len - 1] ELSE w

select_prev_item(w) ==
    IF w.selected = -1 THEN w
    ELSE [w EXCEPT !.selected = IF w.selected = 0 THEN w.last_items_len - 1
                                ELSE w.selected - 1]

select_next_item(w) ==
    IF w.selected = -1 THEN w
    ELSE [w EXCEPT !.selected = IF w.selected + 1 > w.last_items_len - 1 THEN 0
                                ELSE w.selected + 1]

\* SelectableWidget::on_event: the keys that move the selection.
widget_on_event(w, key) ==
    IF key \in {"Up", "k"} THEN select_prev_item(w)
    ELSE IF key \in {"Down", "j"} THEN select_next_item(w)
    ELSE IF key \in {"Home", "g"} THEN select_first_item(w)
    ELSE IF key \in {"End", "G"} THEN select_last_item(w)
    ELSE w

\* The KeyCodes that are not KeyCode::Char; every other key is the Char of
\* its one character.
NamedKeys == {"Tab", "Enter", "Esc", "Backspace", "Up", "Down", "Home", "End"}

\* A clear that leaves the buffer as it is.
input_clear_keeps(input) == input

\* Input::clear (String::clear).
input_clear(input) == <<>>

\* Input::push (String::push).
input_push(input, c) == Append(input, c)

\* Input::on_event: the command returned ("none" is None) and the buffer left.
input_on_event(input, key) ==
    IF key = "Enter"
    THEN [command |-> IF input = <<>> THEN "Cancel" ELSE "Submit", input |-> input]
    ELSE IF key = "Backspace"
    THEN IF input = <<>> THEN [command |-> "Cancel", input |-> input]
         ELSE [command |-> "none", input |-> SubSeq(input, 1, Len(input) - 1)]
    ELSE IF key = "Esc" THEN [command |-> "Cancel", input |-> input]
    ELSE IF key \notin NamedKeys
    THEN [command |-> "none", input |-> input_push(input, key)]
    ELSE [command |-> "none", input |-> input]

\* update_items that shows "Delete partition" for every selected entry.
update_items_always_delete(table, selected) ==
    IF selected = -1
    THEN [items |-> <<"New partition table">>, last_selected |-> -1]
    ELSE [items |-> <<"Delete partition", "New partition table">>,
          last_selected |-> selected]

\* DiskEditor::update_items: the menu items and the recorded selection for
\* the entry the table has selected (selected = -1: entry_info is None).
update_items(table, selected) ==
    IF selected = -1
    THEN [items |-> <<"New partition table">>, last_selected |-> -1]
    ELSE [items |-> <<IF IsFree(table[selected + 1]) THEN "Create partition"
                      ELSE "Delete partition",
                      "New partition table">>,
          last_selected |-> selected]

\* PartitionView::default and DiskEditor::default.
ViewDefault ==
    [focus |-> "Table", table |-> Widget(-1, 0), items |-> <<>>,
     menu |-> Widget(-1, 0), input |-> <<>>]

----------------------------------------------------------------------------
(* The partition view: the first render fetches the devices *)

NoDisk == [starting_lba |-> 0, ending_lba |-> 0, sector_size |-> 0,
           is_gpt |-> FALSE]

\* get_devices on the descriptors lsblk lists: filter_map of new_from, then
\* collect::<Result<Vec<_>>>. The descriptors are classified in order; the
\* first Err ends the collection with that Err, and a panic ends everything.
RECURSIVE collect_devices(_)
collect_devices(devs) ==
    IF devs = <<>> THEN [kind |-> "Ok", devices |-> <<>>]
    ELSE LET d == new_from(Head(devs))
         IN  IF d.kind \in {"Err", "Panic"}
             THEN [kind |-> d.kind, devices |-> <<>>]
             ELSE LET rest == collect_devices(Tail(devs))
                  IN  IF rest.kind # "Ok" THEN rest
                      ELSE [kind |-> "Ok",
                            devices |-> (IF d.kind = "None" THEN <<>> ELSE <<d>>)
                                        \o rest.devices]

\* What the view lists of one Device.
device_entry(d) == [kind |-> d.kind, path |-> d.path]

\* The first render of the partition view, lsblk listing devs:
\* self.devices = get_devices()?, bail on an empty list, then the device
\* at current_device = 0 is the one shown and edited.
render_devices(devs) ==
    LET r == collect_devices(devs)
        shown == r.kind = "Ok" /\ r.devices # <<>>
        editable == shown /\ r.devices[1].kind = "Compatible"
    IN  /\ pc' = IF r.kind = "Panic" THEN "panicked"
                 ELSE IF shown THEN "ready" ELSE "failed"
        /\ op' = IF r.kind = "Panic" THEN "unwrap on None"
                 ELSE IF r.kind = "Err" THEN "Failed to read GPT header"
                 ELSE IF shown THEN "classify" ELSE "No devices found"
        /\ devices' = IF shown
                      THEN [i \in 1..Len(r.devices) |-> device_entry(r.devices[i])]
                      ELSE <<>>
        /\ disk' = IF editable THEN r.devices[1].disk ELSE NoDisk
        /\ mem_table' = IF editable THEN r.devices[1].mem_table ELSE <<>>
        /\ number_pool' = IF editable THEN r.devices[1].number_pool ELSE {}

\* The first render, lsblk listing one disk with a gpt or dos table and
\* unmounted partitions.
get_devices ==
    /\ pc = "start"
    /\ \E dev \in BlockDevices : render_devices(<<dev>>)
    /\ UNCHANGED <<last_selected, focus, create_error, blockdevices, view>>

Init ==
    /\ pc = "start"
    /\ disk = NoDisk
    /\ mem_table = <<>>
    /\ number_pool = {}
    /\ last_selected = -1
    /\ focus = "Menu"
    /\ create_error = "none"
    /\ op = "none"
    /\ blockdevices = <<>>
    /\ devices = <<>>
    /\ view = ViewDefault

Next ==
    \/ get_devices
    \/ \E selected \in 0..(Len(mem_table) - 1) : handle_delete(selected)
    \/ \E selected \in 0..(Len(mem_table) - 1) : handle_menu_create(selected)
    \/ \E text \in SizeTexts : handle_create(text)
    \/ handle_create_cancel

Spec == Init /\ [][Next]_vars

----------------------------------------------------------------------------
(* The editor on a device that has nearly as many partitions as the pool    *)
(* has numbers.                                                             *)

\* A GPT disk with partitions 1 .. n, each of DEFAULT_ALIGN sectors, one
\* after the other; DEFAULT_ALIGN unallocated sectors before the first and
\* t times DEFAULT_ALIGN unallocated sectors after the last.
ManyDevice(n, t) ==
    [path |-> "/dev/sda", devtype |-> "disk", model |-> "model",
     pttype |-> "gpt", gpt_read |-> "ok",
     log_sec |-> 512, size |-> (n + t + 3) * DEFAULT_ALIGN * 512,
     first_usable_lba |-> DEFAULT_ALIGN,
     last_usable_lba |-> (n + t + 2) * DEFAULT_ALIGN - 1,
     children |-> [i \in 1..n |->
                     [devtype |-> "part", mountpoint |-> "none",
                      partn |-> i, start |-> (i + 1) * DEFAULT_ALIGN,
                      size |-> DEFAULT_ALIGN * 512]]]

\* The mem_table new_from builds of ManyDevice(n, t), in closed form: Free,
\* then partitions 1 .. n, then Free where t > 0.
ManyTable(n, t) ==
    <<DiskSpace(DEFAULT_ALIGN, 2 * DEFAULT_ALIGN - 1, DEFAULT_ALIGN,
                DEFAULT_ALIGN * 512)>>
    \o [i \in 1..n |-> MemPartition(i, (i + 1) * DEFAULT_ALIGN,
                                    (i + 2) * DEFAULT_ALIGN - 1, DEFAULT_ALIGN,
                                    DEFAULT_ALIGN * 512)]
    \o (IF t = 0 THEN <<>>
        ELSE <<DiskSpace((n + 2) * DEFAULT_ALIGN,
                         (n + t + 2) * DEFAULT_ALIGN - 1, t * DEFAULT_ALIGN,
                         t * DEFAULT_ALIGN * 512)>>)

\* The unallocated space after the last partition, in units of
\* DEFAULT_ALIGN sectors: none, or room for one more partition.
ManyTails == {0, 1}

\* The view after its first render on ManyDevice(PoolSize - 1, t). new_from
\* is evaluated on the short ManyDevice(MaxPartn, t), where it agrees with
\* the closed form used for the long one.
ManyInit ==
    /\ \A t \in ManyTails :
          /\ compatible(ManyDevice(MaxPartn, t)).mem_table
                = ManyTable(MaxPartn, t)
          /\ compatible(ManyDevice(MaxPartn, t)).number_pool
                = 0..(MaxPartn - 1)
    /\ pc = "ready"
    /\ \E t \in ManyTails :
          /\ disk = disk_of(ManyDevice(PoolSize - 1, t))
          /\ mem_table = ManyTable(PoolSize - 1, t)
    /\ number_pool = 0..(PoolSize - 2)
    /\ last_selected = -1
    /\ focus = "Menu"
    /\ create_error = "none"
    /\ op = "classify"
    /\ blockdevices = <<>>
    /\ devices = <<[kind |-> "Compatible", path |-> "/dev/sda"]>>
    /\ view = ViewDefault

\* The rows followed: the first one and the last one.
ManySelected(table) == {0, Len(table) - 1}

ManyNext ==
    \/ \E selected \in ManySelected(mem_table) : handle_delete(selected)
    \/ \E selected \in ManySelected(mem_table) : handle_menu_create(selected)
    \/ \E text \in SizeTexts : handle_create(text)
    \/ handle_create_cancel

SpecMany == ManyInit /\ [][ManyNext]_vars

----------------------------------------------------------------------------
(* get_devices on whatever lsblk may list *)

\* What lsblk reports of a device besides its geometry: the type, whether
\* a model is known, the partition table type (none, or one the editor
\* does not handle), and whether the GPT header can be read from it.
DevTypes == {"disk", "loop"}
Models == {"model", "none"}
OtherPtTypes == {"none", "atari"}
GptReads == {"ok", "err"}

FlagVariants(dev) ==
    {[dev EXCEPT !.devtype = t, !.model = m, !.pttype = p, !.gpt_read = g] :
        t \in DevTypes, m \in Models, p \in {dev.pttype} \cup OtherPtTypes,
        g \in GptReads}

\* What lsblk reports of a child besides its geometry: the type and the
\* mountpoint.
ChildTypes == {"part", "lvm"}
MountPoints == {"none", "/mnt"}

ChildVariants(dev) ==
    {[dev EXCEPT !.children =
         [i \in 1..Len(dev.children) |->
             [dev.children[i] EXCEPT !.devtype = f[i][1],
                                     !.mountpoint = f[i][2]]]] :
        f \in [1..Len(dev.children) -> ChildTypes \X MountPoints]}

\* The disks whose children lsblk lists by ascending start, numbered from 1.
OrderedDevices ==
    {dev \in BlockDevices :
        \A i \in 1..Len(dev.children) :
            /\ dev.children[i].partn = i
            /\ i > 1 => dev.children[i - 1].start < dev.children[i].start}

Descriptors ==
    UNION {FlagVariants(dev) \cup ChildVariants(dev) : dev \in OrderedDevices}

\* The descriptors without children, which lsblk may list next to another.
BareDescriptors == {dev \in Descriptors : dev.children = <<>>}

\* Nothing, one device, or two devices without children.
DescriptorLists ==
    {<<>>}
    \cup {<<dev>> : dev \in Descriptors}
    \cup {<<a, [b EXCEPT !.path = "/dev/sdb"]>> :
             a \in BareDescriptors, b \in BareDescriptors}

get_devices_listed ==
    /\ pc = "start"
    /\ \E devs \in DescriptorLists :
          /\ blockdevices' = devs
          /\ render_devices(devs)
    /\ UNCHANGED <<last_selected, focus, create_error, view>>

DevicesNext == get_devices_listed

SpecDevices == Init /\ [][DevicesNext]_vars

----------------------------------------------------------------------------
(* NumberPool::find_available_num on its own: applied to a pool, then to    *)
(* the pool it leaves, and so on.                                           *)

\* Pools with the first k slots marked, but for one slot h among the lowest.
PoolInputs ==
    {(0..(k - 1)) \ {h} :
        k \in (0..MaxPartn) \cup ((PoolSize - MaxPartn)..PoolSize),
        h \in -1..MaxPartn}

PoolInit ==
    /\ pc = "pool"
    /\ disk = NoDisk
    /\ mem_table = <<>>
    /\ number_pool \in PoolInputs
    /\ last_selected = -1
    /\ focus = "Menu"
    /\ create_error = "none"
    /\ op = "none"
    /\ blockdevices = <<>>
    /\ devices = <<>>
    /\ view = ViewDefault

find_available_apply ==
    /\ pc = "pool"
    /\ number_pool' = find_available(number_pool).pool
    /\ op' = IF find_available(number_pool).number = 0 THEN "none found"
             ELSE "found"
    /\ UNCHANGED <<pc, disk, mem_table, last_selected, focus, create_error,
                   blockdevices, devices, view>>

PoolNext == find_available_apply

SpecPool == PoolInit /\ [][PoolNext]_vars

----------------------------------------------------------------------------
(* fill_free_space on its own: applied to the partitions of a device as     *)
(* lsblk lists them, then to its own result, then once more.                *)

\* A GPT disk of 1048577 sectors whose usable range is 2048..1048575, with
\* one partition on sectors 4096..8191.
ExampleDevice ==
    [path |-> "/dev/sda", devtype |-> "disk", model |-> "model",
     pttype |-> "gpt", gpt_read |-> "ok",
     log_sec |-> 512, size |-> 1048577 * 512,
     first_usable_lba |-> 2048, last_usable_lba |-> 1048575,
     children |-> <<[devtype |-> "part", mountpoint |-> "none",
                     partn |-> 1, start |-> 4096, size |-> 4096 * 512]>>]

FillInit ==
    /\ pc = "fill0"
    /\ \E dev \in BlockDevices \cup {ExampleDevice} :
          /\ disk = disk_of(dev)
          /\ mem_table = partitions_of(dev)
          /\ number_pool = SeedPool({}, partitions_of(dev))
    /\ last_selected = -1
    /\ focus = "Menu"
    /\ create_error = "none"
    /\ op = "none"
    /\ blockdevices = <<>>
    /\ devices = <<>>
    /\ view = ViewDefault

fill_apply ==
    /\ pc \in {"fill0", "fill1"}
    /\ mem_table' = fill_free_space(disk, mem_table)
    /\ pc' = IF pc = "fill0" THEN "fill1" ELSE "fill2"
    /\ UNCHANGED <<disk, number_pool, last_selected, focus, create_error, op,
                   blockdevices, devices, view>>

FillNext == fill_apply

SpecFill == FillInit /\ [][FillNext]_vars

----------------------------------------------------------------------------
(* The render / key-event loop of the partition view (render_view): the    *)
(* view is rendered, one key event is read and handled, the view is        *)
(* rendered again.  A state is the view as the render left it.             *)

\* PartitionView::render after the devices are fetched: render_table, then
\* editor.update_items with the entry the table has selected, then
\* editor.render.  An Incompatible device has no rows.  ok is FALSE when
\* entries[selected] of update_items is out of range and the render panics.
render(devs, table, v) ==
    LET rows == IF devs[1].kind = "Compatible" THEN Len(table) ELSE 0
        t == update_state(v.table, rows)
        ok == t.selected < rows
        u == update_items(table, IF ok THEN t.selected ELSE -1)
    IN  [ok |-> ok,
         view |-> [v EXCEPT !.table = t, !.items = u.items,
                            !.menu = update_state(v.menu, Len(u.items))],
         last_selected |-> IF ok THEN u.last_selected ELSE t.selected]

\* What a handler leaves before the next render; followed is FALSE for a
\* step the model does not follow.
Handled(v) ==
    [pc |-> "ready", op |-> op, table |-> mem_table, pool |-> number_pool,
     focus |-> focus, error |-> create_error, view |-> v, followed |-> TRUE]

Aborted(h, message) == [h EXCEPT !.pc = "panicked", !.op = message]

\* PartitionView::handle_table.  'q' returns Msg::BackToMain: the route
\* changes and the view is kept as it is.
handle_table(key) ==
    IF key = "q" THEN Handled(view)
    ELSE IF key = "Tab" THEN Handled([view EXCEPT !.focus = "Editor"])
    ELSE Handled([view EXCEPT !.table = widget_on_event(view.table, key)])

\* DiskEditor::handle_delete as handle_menu calls it, on the entry recorded
\* by the last render.
menu_delete ==
    LET h == Handled(view)
        r == delete_entries(mem_table, last_selected)
        index == released_index(mem_table, last_selected)
    IN  IF last_selected = -1 THEN Aborted(h, "unwrap on None")
        ELSE IF devices[1].kind # "Compatible"
                \/ ~IsPartition(mem_table[last_selected + 1])
        THEN Aborted(h, "irrefutable pattern")
        ELSE IF ~r.ok THEN Aborted(h, "Not a sibling space")
        ELSE IF index >= PoolSize THEN Aborted(h, "index out of bounds")
        ELSE [h EXCEPT !.table = r.table,
                       !.pool = set_unused(number_pool, index),
                       !.op = "delete"]

\* DiskEditor::handle_menu.
handle_menu(key) ==
    LET h == Handled(view)
        i == view.menu.selected
    IN  IF key = "Tab" THEN Handled([view EXCEPT !.focus = "Table"])
        ELSE IF key = "Enter"
        THEN IF i = -1 THEN h
             ELSE IF i >= Len(view.items) THEN Aborted(h, "index out of bounds")
             ELSE IF view.items[i + 1] = "Create partition"
             THEN [h EXCEPT !.focus = "Create",
                            !.view.input = input_push(view.input, "*")]
             ELSE IF view.items[i + 1] = "Delete partition" THEN menu_delete
             ELSE Aborted(h, "unreachable")
        ELSE Handled([view EXCEPT !.menu = widget_on_event(view.menu, key)])

\* DiskEditor::handle_create on one key event.  Typing is followed while the
\* buffer is the beginning of one of the texts submitted, and a create while
\* the number it allocates is within MaxNumber of either end of the pool.
handle_create_key(key) ==
    LET c == input_on_event(view.input, key)
        h == [Handled([view EXCEPT !.input = c.input]) EXCEPT !.error = "none"]
        number == find_available_num(number_pool)
    IN  IF c.command = "none"
        THEN [h EXCEPT !.followed = c.input \in InputTexts]
        ELSE IF c.command = "Cancel"
        THEN [h EXCEPT !.view.input = input_clear(c.input), !.focus = "Menu"]
        ELSE IF last_selected = -1 THEN Aborted(h, "unwrap on None")
        ELSE IF devices[1].kind # "Compatible"
                \/ ~IsFree(mem_table[last_selected + 1])
        THEN Aborted(h, "irrefutable pattern")
        ELSE LET r == create_outcome(disk, mem_table, number_pool,
                                     last_selected, c.input)
             IN  IF r.panic THEN Aborted(h, "unwrap on None")
                 ELSE IF r.done
                 THEN [h EXCEPT !.table = r.table, !.pool = r.pool,
                                !.op = "create",
                                !.view.input = input_clear(c.input),
                                !.focus = "Menu",
                                !.followed = number <= MaxNumber
                                             \/ number > PoolSize - MaxNumber]
                 ELSE [h EXCEPT !.error = r.error]

\* PartitionView::on_event and DiskEditor::on_event: the handler the two
\* focuses select.
handled(key) ==
    IF view.focus = "Table" THEN handle_table(key)
    ELSE IF focus = "Menu" THEN handle_menu(key)
    ELSE handle_create_key(key)

\* The named keys, the letters that move a selection or leave the view, and
\* the characters of the texts typed.
Keys ==
    NamedKeys \cup {"q", "k", "j", "g", "G"}
    \cup UNION {{t[i] : i \in 1..Len(t)} : t \in TypedTexts}

\* One turn of the loop of render_view: the key event is handled, and unless
\* the handler panicked the view is rendered again.
on_event(key) ==
    /\ pc = "ready"
    /\ LET h == handled(key)
           r == render(devices, h.table, h.view)
           rendered == h.pc = "ready"
       IN  /\ h.followed
           /\ pc' = IF rendered /\ ~r.ok THEN "panicked" ELSE h.pc
           /\ op' = IF rendered /\ ~r.ok THEN "index out of bounds" ELSE h.op
           /\ mem_table' = h.table
           /\ number_pool' = h.pool
           /\ focus' = h.focus
           /\ create_error' = h.error
           /\ view' = IF rendered THEN r.view ELSE h.view
           /\ last_selected' = IF rendered THEN r.last_selected
                               ELSE last_selected
    /\ UNCHANGED <<disk, blockdevices, devices>>

\* The disks shown in the loop: with a gpt table and at most one partition,
\* of one grain, or the same disk without a partition table.
ViewDevices ==
    LET shown == {dev \in OrderedDevices :
                     /\ dev.pttype = "gpt"
                     /\ Len(dev.children) <= 1
                     /\ \A i \in 1..Len(dev.children) :
                            dev.children[i].size = Grain * dev.log_sec}
    IN  shown \cup {[dev EXCEPT !.pttype = "none"] :
                       dev \in {d \in shown : d.children = <<>>}}

\* The first render: fetch_data_if_needed calls get_devices, then the view
\* is rendered as in every later turn.
first_render ==
    /\ pc = "start"
    /\ \E dev \in ViewDevices : render_devices(<<dev>>)
    /\ LET r == render(devices', mem_table', view)
       IN  /\ view' = IF pc' = "ready" THEN r.view ELSE view
           /\ last_selected' = IF pc' = "ready" THEN r.last_selected
                               ELSE last_selected
    /\ UNCHANGED <<focus, create_error, blockdevices>>

ViewNext ==
    \/ first_render
    \/ \E key \in Keys : on_event(key)

SpecView == Init /\ [][ViewNext]_vars

----------------------------------------------------------------------------
(* Properties *)

Partitions(table) == {i \in 1..Len(table) : IsPartition(table[i])}
Frees(table) == {i \in 1..Len(table) : IsFree(table[i])}

\* The numbers carried by the Partition regions.
PartitionNumbers(table) == {table[i].number : i \in Partitions(table)}

\* The numbers number_pool marks used.
UsedNumbers(pool) == {i + 1 : i \in pool}

\* The Free regions of a table, as a set.
FreeRegions(table) == {table[i] : i \in Frees(table)}

\* A step of handle_delete that completed.
DeleteStep ==
    /\ pc = "ready"
    /\ pc' = "ready"
    /\ op' = "delete"
    /\ Cardinality(Partitions(mem_table')) = Cardinality(Partitions(mem_table)) - 1

\* C1: once the devices are loaded, and after every create and delete, the
\* numbers of the Partition regions are exactly the numbers number_pool
\* marks used.
C1_NumbersEqualPool ==
    pc = "ready" => PartitionNumbers(mem_table) = UsedNumbers(number_pool)

\* C2: no two Partition regions of the table carry the same number.
C2_NumbersUnique ==
    pc = "ready" =>
        \A i, j \in Partitions(mem_table) :
            i # j => mem_table[i].number # mem_table[j].number

\* C3: a delete of the Partition region numbered n marks n unused and leaves
\* every other number of the pool as it was, whatever the index of the region.
C3_DeleteReleasesNumber ==
    [][DeleteStep =>
          number_pool' =
              number_pool \ {mem_table[last_selected' + 1].number - 1}]_vars

\* C4: no delete trips the sibling assertion of expand_right / expand_left.
C4_DeleteNeverTripsAssert ==
    ~(pc = "panicked" /\ op = "Not a sibling space")

\* C5: the table is sorted ascending by start.
C5_SortedByStart ==
    pc = "ready" =>
        \A i \in 1..(Len(mem_table) - 1) :
            mem_table[i].start < mem_table[i + 1].start

\* C6: no two consecutive entries of the table are both Free.
C6_NoAdjacentFree ==
    pc = "ready" =>
        \A i \in 1..(Len(mem_table) - 1) :
            ~(IsFree(mem_table[i]) /\ IsFree(mem_table[i + 1]))

\* A delete has merged the partition into the Free region before it, and a
\* Partition follows the merged region.
C6_Witness ==
    /\ pc = "ready"
    /\ op = "delete"
    /\ last_selected >= 1
    /\ last_selected < Len(mem_table)
    /\ IsFree(mem_table[last_selected])
    /\ IsPartition(mem_table[last_selected + 1])

\* C7: every Free region starts on a multiple of DEFAULT_ALIGN.
C7_FreeStartsAligned ==
    pc = "ready" =>
        \A i \in Frees(mem_table) : mem_table[i].start % DEFAULT_ALIGN = 0

\* C8: after every create and delete the Free regions of the table are the
\* ones fill_free_space computes from the sentinels and the partitions.
C8_FreeMatchesFill ==
    (pc = "ready" /\ op \in {"create", "delete"}) =>
        FreeRegions(mem_table) = FreeRegions(fill_free_space(disk, mem_table))

\* C9: fill_free_space applied to the table it has just produced leaves the
\* table as it is.
C9_FillIdempotent ==
    [][(pc = "fill1" /\ pc' = "fill2") => mem_table' = mem_table]_vars

\* fill_free_space with the sort run unconditionally.
fill_free_space_sorted(d, entries) ==
    LET positions == SortInts(<<d.starting_lba>> \o PartitionBounds(entries)
                              \o <<d.ending_lba>>)
    IN  SortByStart(RetainPartitions(entries) \o Spaces(d, positions))

\* C10: for every input table, fill_free_space gives what it would give with
\* the sort run unconditionally.
C10_SortSkipIsOptimization ==
    [][(pc \in {"fill0", "fill1"} /\ pc' \in {"fill1", "fill2"}) =>
          mem_table' = fill_free_space_sorted(disk, mem_table)]_vars

\* The first and the last sector between the sentinels.
FirstSector == disk.starting_lba + 1
LastSector == disk.ending_lba - 1

\* Sector x belongs to a region of the table.
Covered(table, x) ==
    \E i \in 1..Len(table) : table[i].start <= x /\ x <= table[i].end

\* The first sectors of the runs of sectors that belong to no region: such a
\* run starts at the first sector or right behind a region.
RunStarts(table) ==
    {x \in {FirstSector} \cup {table[i].end + 1 : i \in 1..Len(table)} :
        x <= LastSector /\ ~Covered(table, x)}

\* The length of the run of uncovered sectors that starts at x.
RunLength(table, x) ==
    LET stops == {LastSector + 1}
                 \cup {table[i].start : i \in {j \in 1..Len(table) :
                                                  table[j].start > x}}
    IN  (CHOOSE m \in stops : \A n \in stops : m <= n) - x

\* Every region lies between the sentinels.
RegionsInside(table) ==
    \A i \in 1..Len(table) :
        FirstSector <= table[i].start /\ table[i].end <= LastSector

\* C11 as stated: the regions cover every sector between the sentinels, no
\* gap of a whole sector is left.
C11_CoverageNoGap ==
    pc = "ready" => (RegionsInside(mem_table) /\ RunStarts(mem_table) = {})

\* C11 amended: the regions lie between the sentinels and every run of
\* sectors that belongs to no region is shorter than DEFAULT_ALIGN sectors.
C11_CoverageUpToPadding ==
    pc = "ready" =>
        /\ RegionsInside(mem_table)
        /\ \A x \in RunStarts(mem_table) :
              RunLength(mem_table, x) < DEFAULT_ALIGN

\* A create has left alignment padding behind the new partition.
C11_Witness ==
    /\ pc = "ready"
    /\ op = "create"
    /\ mem_table[last_selected + 1].end + 1 \in RunStarts(mem_table)
    /\ last_selected + 1 < Len(mem_table)
    /\ IsFree(mem_table[last_selected + 2])

\* C12: no two regions of the table share a sector.
C12_RegionsDisjoint ==
    pc = "ready" =>
        \A i, j \in 1..Len(mem_table) :
            i # j => \/ mem_table[i].end < mem_table[j].start
                     \/ mem_table[j].end < mem_table[i].start

\* A delete has merged the deleted partition with a Free neighbour while
\* another region remains next to the merged one.
C12_Witness ==
    /\ pc = "ready"
    /\ op = "delete"
    /\ \E i \in Frees(mem_table) : mem_table[i].sectors > DEFAULT_ALIGN
    /\ Partitions(mem_table) # {}

\* C13: the size in bytes of every region is its sector count times the
\* sector size of the disk.
C13_SizeIsSectorsTimesSectorSize ==
    pc = "ready" =>
        \A i \in 1..Len(mem_table) :
            mem_table[i].size = mem_table[i].sectors * disk.sector_size

\* A delete has grown the Free region before the deleted partition:
\* expand_right has added both the sectors and the bytes.
C13_Witness ==
    /\ pc = "ready"
    /\ op = "delete"
    /\ last_selected >= 1
    /\ last_selected <= Len(mem_table)
    /\ IsFree(mem_table[last_selected])
    /\ mem_table[last_selected].size >= 2 * Grain * disk.sector_size

\* The tables a create that consumes the whole Free region at selected can
\* leave: by the text "*" and by a count equal to the sectors of the region.
WholeCreates(d, table, selected, number) ==
    {create_all(table, selected, number),
     create_entries(d, table, selected, table[selected + 1].sectors, number)}

\* C14: where a Free region is selected for a create, a create that consumes
\* the whole region followed by the delete of the new partition gives back
\* the table as it was: the same Free region at the same position and every
\* other region as before.
C14_CreateAllThenDeleteRestores ==
    (pc = "ready" /\ focus = "Create"
        /\ find_available_num(number_pool) # 0) =>
        \A t \in WholeCreates(disk, mem_table, last_selected,
                              find_available_num(number_pool)) :
            LET r == delete_entries(t, last_selected)
            IN  r.ok /\ r.table = mem_table

\* A Free region that a delete left between two partitions is selected for
\* a create, and a number is available: creating a partition of the whole
\* region and deleting it restores the table.
C14_Witness ==
    /\ pc = "ready"
    /\ op = "delete"
    /\ focus = "Create"
    /\ find_available_num(number_pool) # 0
    /\ last_selected >= 1
    /\ last_selected + 2 <= Len(mem_table)
    /\ IsPartition(mem_table[last_selected])
    /\ IsPartition(mem_table[last_selected + 2])
    /\ delete_entries(create_all(mem_table, last_selected,
                                 find_available_num(number_pool)),
                      last_selected).table = mem_table

\* The smallest multiple of DEFAULT_ALIGN that is >= x.
AlignUp(x) == ((x + DEFAULT_ALIGN - 1) \div DEFAULT_ALIGN) * DEFAULT_ALIGN

\* The gaps between consecutive boundaries: the start sentinel or the end of
\* a partition, paired with the next partition start or the end sentinel.
Gaps(d, table) ==
    LET lefts == {d.starting_lba} \cup {table[i].end : i \in Partitions(table)}
        rights(l) == {d.ending_lba}
                     \cup {table[i].start : i \in {j \in Partitions(table) :
                                                      table[j].start > l}}
    IN  {<<l, CHOOSE m \in rights(l) : \A n \in rights(l) : m <= n>> :
            l \in lefts \ {d.ending_lba}}

\* The Free regions the gaps stand for: from the first aligned sector behind
\* gap_start to gap_end - 1, where that leaves a sector.
GapRegions(d, table) ==
    {DiskSpace(AlignUp(g[1] + 1), g[2] - 1, g[2] - AlignUp(g[1] + 1),
               (g[2] - AlignUp(g[1] + 1)) * d.sector_size) :
        g \in {h \in Gaps(d, table) : AlignUp(h[1] + 1) <= h[2] - 1}}

\* The [start, end] pairs of the Free regions of a table.
FreeBounds(table) == {<<table[i].start, table[i].end>> : i \in Frees(table)}

\* C15: fill_free_space makes of every gap the Free region that starts at
\* the smallest multiple of 2048 >= gap_start + 1 and ends at gap_end - 1,
\* and none where no sector is left; sentinels 2047 and 1048576 with the
\* partition [4096,8191] give the Free regions [2048,4095] and
\* [8192,1048575].
C15_FillGapRegions ==
    [][(pc \in {"fill0", "fill1"} /\ pc' \in {"fill1", "fill2"}) =>
          /\ FreeRegions(mem_table') = GapRegions(disk, mem_table)
          /\ (disk.starting_lba = 2047 /\ disk.ending_lba = 1048576) =>
                FreeBounds(mem_table') = {<<2048, 4095>>, <<8192, 1048575>>}]_vars

\* fill_free_space has run on the disk with sentinels 2047 and 1048576 and
\* the partition [4096,8191].
C15_Witness ==
    /\ pc = "fill1"
    /\ disk.starting_lba = 2047
    /\ disk.ending_lba = 1048576
    /\ \E i \in Partitions(mem_table) :
          mem_table[i].start = 4096 /\ mem_table[i].end = 8191
    /\ Cardinality(Frees(mem_table)) = 2

\* The Free region a create is about and what the submitted text asks for.
SelectedFree == mem_table[last_selected + 1]
Requested(text) == Resolved[disk.sector_size][text]

\* The size input is open on the Free region selected and shows no error.
\* handle_create clears the error before it looks at the key, so what it
\* does on a text is the same where an error of the last submit is shown.
InCreate == pc = "ready" /\ focus = "Create" /\ create_error = "none"

\* What handle_create does on text in this state.
Outcome(text) ==
    create_outcome(disk, mem_table, number_pool, last_selected, text)

\* handle_create on text returns with the size input still open, err shown,
\* and the table and the number pool as they were.
Refused(text, err) ==
    LET r == Outcome(text)
    IN  /\ ~r.done
        /\ ~r.panic
        /\ r.error = err
        /\ r.table = mem_table
        /\ r.pool = number_pool

\* table with the entry at selected (0-based) replaced by a Partition on
\* [start, end] and, where tail is not empty, tail put right behind it:
\* nothing else differs and the partition counts its sectors.
SplitInto(table, after, selected, start, end, tail) ==
    /\ Len(after) = Len(table) + Len(tail)
    /\ \A i \in 1..selected : after[i] = table[i]
    /\ IsPartition(after[selected + 1])
    /\ after[selected + 1].start = start
    /\ after[selected + 1].end = end
    /\ after[selected + 1].sectors = end - start + 1
    /\ \A i \in 1..Len(tail) :
          /\ IsFree(after[selected + 1 + i])
          /\ after[selected + 1 + i].start = tail[i][1]
          /\ after[selected + 1 + i].end = tail[i][2]
    /\ \A i \in (selected + 2)..Len(table) : after[i + Len(tail)] = table[i]

\* The bounds of the remainder behind a partition that ends at end in a Free
\* region that ends at free_end: from the first aligned sector on, if any.
Remainder(end, free_end) ==
    IF AlignUp(end + 1) <= free_end THEN <<<<AlignUp(end + 1), free_end>>>>
    ELSE <<>>

\* C16: wherever the size input is open and a number is available, a create
\* of count sectors, 0 < count < free.sectors, goes through and replaces the
\* Free region by a Partition on [free.start, free.start + count - 1]; the
\* remainder is a Free region right behind it, from the smallest multiple of
\* 2048 >= partition.end + 1 to free.end, and there is none where that
\* leaves no sector.
C16_CreateSplitsFree ==
    (InCreate /\ find_available_num(number_pool) # 0) =>
        \A text \in SizeTexts :
            (/\ Requested(text).kind = "sectors"
             /\ 0 < Requested(text).n
             /\ Requested(text).n < SelectedFree.sectors) =>
                LET r == Outcome(text)
                    end == SelectedFree.start + Requested(text).n - 1
                IN  /\ r.done
                    /\ SplitInto(mem_table, r.table, last_selected,
                                 SelectedFree.start, end,
                                 Remainder(end, SelectedFree.end))

\* A create has put a partition in the front part of a Free region and the
\* remainder follows it without padding.
C16_Witness ==
    /\ pc = "ready"
    /\ op = "create"
    /\ last_selected + 2 <= Len(mem_table)
    /\ IsPartition(mem_table[last_selected + 1])
    /\ IsFree(mem_table[last_selected + 2])
    /\ mem_table[last_selected + 2].start = mem_table[last_selected + 1].end + 1

\* C17: wherever the size input is open and a number is available, a create
\* with the text "*", or with a count equal to the sectors of the Free
\* region, goes through and replaces the region by one Partition with the
\* same start, end and sectors, inserts no remainder and leaves the length
\* of the table as it was.
C17_CreateWholeRegion ==
    (InCreate /\ find_available_num(number_pool) # 0) =>
        \A text \in SizeTexts :
            (\/ Requested(text).kind = "star"
             \/ /\ Requested(text).kind = "sectors"
                /\ Requested(text).n = SelectedFree.sectors) =>
                LET r == Outcome(text)
                IN  /\ r.done
                    /\ Len(r.table) = Len(mem_table)
                    /\ r.table[last_selected + 1].sectors
                          = SelectedFree.sectors
                    /\ SplitInto(mem_table, r.table, last_selected,
                                 SelectedFree.start, SelectedFree.end, <<>>)

\* A create has made a partition that ends right in front of the next
\* partition: it took the whole Free region between its neighbours.
C17_Witness ==
    /\ pc = "ready"
    /\ op = "create"
    /\ last_selected + 2 <= Len(mem_table)
    /\ IsPartition(mem_table[last_selected + 1])
    /\ IsPartition(mem_table[last_selected + 2])
    /\ mem_table[last_selected + 2].start = mem_table[last_selected + 1].end + 1

\* C18: wherever the size input is open, a create whose size resolves to 0
\* sectors shows ERR_INVALID_SIZE and leaves the table and the number pool
\* as they were.
C18_ZeroSectorsRejected ==
    InCreate =>
        \A text \in SizeTexts :
            (Requested(text).kind = "sectors" /\ Requested(text).n = 0) =>
                Refused(text, ERR_INVALID_SIZE)

\* The size input shows ERR_INVALID_SIZE.
C18_Witness ==
    pc = "ready" /\ focus = "Create" /\ create_error = ERR_INVALID_SIZE

\* C19: wherever the size input is open, a create whose resolved sector
\* count is larger than the sectors of the Free region shows ERR_OVER_SIZE,
\* which is neither ERR_PARSE_SIZE nor ERR_INVALID_SIZE, makes no partition,
\* and leaves the table and the number pool as they were.
C19_OverSizeRejected ==
    InCreate =>
        \A text \in SizeTexts :
            (/\ Requested(text).kind = "sectors"
             /\ Requested(text).n > SelectedFree.sectors) =>
                /\ Refused(text, ERR_OVER_SIZE)
                /\ ERR_OVER_SIZE \notin {ERR_PARSE_SIZE, ERR_INVALID_SIZE}

\* The size input shows ERR_OVER_SIZE.
C19_Witness ==
    pc = "ready" /\ focus = "Create" /\ create_error = ERR_OVER_SIZE

\* C20: a create on a text that is neither "*" nor a sector count nor a
\* byte quantity, a text of whitespace and a lone 's' among them, returns
\* showing ERR_PARSE_SIZE, the size input still open, and leaves the table
\* and the number pool as they were.
C20_InvalidTextGivesParseError ==
    [][\A text \in SizeTexts :
          (/\ InCreate
           /\ Requested(text).kind \in {"unparsable", "panic"}
           /\ handle_create(text)) =>
              /\ pc' = "ready"
              /\ focus' = "Create"
              /\ create_error' = ERR_PARSE_SIZE
              /\ mem_table' = mem_table
              /\ number_pool' = number_pool]_vars

\* A submitted text that asks for the whole region or for a count of
\* sectors the selected Free region can hold.
ValidRequest(text) ==
    \/ Requested(text).kind = "star"
    \/ /\ Requested(text).kind = "sectors"
       /\ size_error(Requested(text).n, SelectedFree.sectors) = "none"

\* Every slot of number_pool is marked used.
PoolExhausted == number_pool = 0..(PoolSize - 1)

\* C21: while number_pool has no unused number, Enter on "*" and on any
\* valid size creates nothing: the region list and number_pool stay as they
\* are and the size input stays open.
C21_ExhaustedPoolAborts ==
    (InCreate /\ PoolExhausted) =>
        \A text \in SizeTexts :
            ValidRequest(text) =>
                LET r == Outcome(text)
                IN  /\ ~r.done
                    /\ ~r.panic
                    /\ r.table = mem_table
                    /\ r.pool = number_pool

\* The size input is open on a Free region while every number is taken.
C21_Witness ==
    /\ InCreate
    /\ PoolExhausted
    /\ \E t1, t2 \in SizeTexts :
          /\ Requested(t1).kind = "star"
          /\ Requested(t2).kind = "sectors"
          /\ ValidRequest(t2)

\* C22: after any creates and deletes, a device holding fewer than PoolSize
\* Partition regions has an unused number left in number_pool.
C22_NumberLeftBelowPoolSize ==
    pc = "ready" =>
        (Cardinality(Partitions(mem_table)) < PoolSize => ~PoolExhausted)

\* The editor menu is open on a loaded device.
InMenu == pc = "ready" /\ focus = "Menu"

PrevFree(selected) == selected >= 1 /\ IsFree(mem_table[selected])

NextFree(selected) ==
    selected + 2 <= Len(mem_table) /\ IsFree(mem_table[selected + 2])

\* The 0-based rows of the table that hold a Partition.
PartitionRows == {i - 1 : i \in Partitions(mem_table)}

\* C23: delete of a Partition between two Free regions completes and leaves,
\* at the left neighbour's index, one Free region from the left neighbour's
\* start to the right neighbour's end; the table is shorter by 2.
C23_DeleteBetweenFrees ==
    InMenu =>
        \A selected \in PartitionRows :
            (PrevFree(selected) /\ NextFree(selected)) =>
                LET r == delete_entries(mem_table, selected)
                IN  /\ r.ok
                    /\ Len(r.table) = Len(mem_table) - 2
                    /\ IsFree(r.table[selected])
                    /\ r.table[selected].start = mem_table[selected].start
                    /\ r.table[selected].end = mem_table[selected + 2].end
                    /\ (selected + 1 <= Len(r.table)
                           => ~IsFree(r.table[selected + 1]))
                    /\ (selected >= 2 => ~IsFree(r.table[selected - 1]))

\* C24: delete of a Partition [ps, pe] with a Free region only before it
\* extends that region to pe; with a Free region only after it, extends that
\* region back to ps; in both cases the table is shorter by 1. With no Free
\* neighbour the entry itself becomes Free [ps, pe] and the length stays.
C24_DeleteBesideOneOrNoFree ==
    InMenu =>
        \A selected \in PartitionRows :
            LET r == delete_entries(mem_table, selected)
                part == mem_table[selected + 1]
            IN  /\ (PrevFree(selected) /\ ~NextFree(selected)) =>
                       /\ r.ok
                       /\ Len(r.table) = Len(mem_table) - 1
                       /\ IsFree(r.table[selected])
                       /\ r.table[selected].start = mem_table[selected].start
                       /\ r.table[selected].end = part.end
                /\ (~PrevFree(selected) /\ NextFree(selected)) =>
                       /\ r.ok
                       /\ Len(r.table) = Len(mem_table) - 1
                       /\ IsFree(r.table[selected + 1])
                       /\ r.table[selected + 1].start = part.start
                       /\ r.table[selected + 1].end = mem_table[selected + 2].end
                /\ (~PrevFree(selected) /\ ~NextFree(selected)) =>
                       /\ r.ok
                       /\ Len(r.table) = Len(mem_table)
                       /\ IsFree(r.table[selected + 1])
                       /\ r.table[selected + 1].start = part.start
                       /\ r.table[selected + 1].end = part.end

\* The 0-based slots of a pool that are not marked.
Unused(pool) == (0..(PoolSize - 1)) \ pool

\* C25: find_available returns the lowest number of 1 .. PoolSize that is
\* not marked and marks that number and no other; where every number is
\* marked it returns none and leaves the pool as it is; on a pool with
\* nothing marked it returns 1.
C25_FindAvailableLowestUnused ==
    pc = "pool" =>
        LET r == find_available(number_pool)
        IN  /\ Unused(number_pool) = {} =>
                   (r.number = 0 /\ r.pool = number_pool)
            /\ Unused(number_pool) # {} =>
                   /\ r.number \in 1..PoolSize
                   /\ r.number - 1 \in Unused(number_pool)
                   /\ \A u \in Unused(number_pool) : r.number - 1 <= u
                   /\ r.pool = number_pool \cup {r.number - 1}
            /\ number_pool = {} => r.number = 1

\* Calls have marked the slots that were left and one more call has found
\* every slot marked.
C25_Witness ==
    /\ pc = "pool"
    /\ op = "none found"
    /\ Unused(number_pool) = {}

\* get_devices has returned, or failed, on what lsblk listed.
Listed == pc # "start" /\ blockdevices # <<>>

\* The GPT header of a device is looked for and cannot be read.
GptFails(dev) ==
    /\ dev.devtype = "disk"
    /\ dev.model # "none"
    /\ dev.pttype = "gpt"
    /\ dev.gpt_read = "err"

\* A descriptor new_from makes a Device of.
Classified(dev) == new_from(dev).kind \in {"Compatible", "Incompatible"}

PathsOf(seq) == [i \in 1..Len(seq) |-> seq[i].path]

\* C26: where the GPT header of one listed device cannot be read, that
\* device is left out and every other device lsblk listed is returned as it
\* would be without it.
C26_GptFailureSkipsDevice ==
    (/\ Listed
     /\ \E i \in 1..Len(blockdevices) : GptFails(blockdevices[i])
     /\ \A i \in 1..Len(blockdevices) : new_from(blockdevices[i]).kind # "Panic")
        => PathsOf(devices) = PathsOf(SelectSeq(blockdevices, Classified))

\* C27: new_from gives no device for a descriptor whose type is not "disk",
\* an Incompatible device, which has no mem_table, for a disk whose table
\* type is absent or neither gpt nor dos, and a Compatible device for every
\* other disk whose GPT header, if it has one, can be read.
C27_Classification ==
    Listed =>
        \A i \in 1..Len(blockdevices) :
            LET dev == blockdevices[i]
                d == new_from(dev)
            IN  /\ dev.devtype # "disk" => d.kind = "None"
                /\ (dev.devtype = "disk" /\ dev.pttype \notin {"gpt", "dos"}) =>
                       (d.kind = "Incompatible" /\ "mem_table" \notin DOMAIN d)
                /\ (/\ dev.devtype = "disk"
                    /\ dev.pttype \in {"gpt", "dos"}
                    /\ ~(dev.pttype = "gpt" /\ dev.gpt_read = "err")) =>
                       d.kind = "Compatible"
                /\ d.kind = "Incompatible" => "mem_table" \notin DOMAIN d

\* The children of a descriptor that are partitions and not mounted.
Built(dev) ==
    {i \in 1..Len(dev.children) :
        /\ dev.children[i].devtype = "part"
        /\ dev.children[i].mountpoint = "none"}

\* C28: the Partition regions of a Compatible device are one for each child
\* that is a partition and not mounted, with the child's number and start,
\* and none for any other child; number_pool marks the numbers of these
\* partitions and no other.
C28_PartitionPerUnmountedChild ==
    Listed =>
        \A i \in 1..Len(blockdevices) :
            LET dev == blockdevices[i]
                d == new_from(dev)
            IN  d.kind = "Compatible" =>
                    /\ Cardinality(Partitions(d.mem_table))
                          = Cardinality(Built(dev))
                    /\ \A c \in Built(dev) :
                          \E j \in Partitions(d.mem_table) :
                              /\ d.mem_table[j].number = dev.children[c].partn
                              /\ d.mem_table[j].start = dev.children[c].start
                              /\ d.mem_table[j].size = dev.children[c].size
                    /\ UsedNumbers(d.number_pool)
                          = {dev.children[c].partn : c \in Built(dev)}

\* A disk with one child that is built and one that is not is shown.
C28_Witness ==
    /\ pc = "ready"
    /\ Len(blockdevices) = 1
    /\ devices[1].kind = "Compatible"
    /\ Built(blockdevices[1]) # {}
    /\ \E c \in 1..Len(blockdevices[1].children) : c \notin Built(blockdevices[1])
    /\ Cardinality(Partitions(mem_table)) = Cardinality(Built(blockdevices[1]))

\* C29: a GPT device has starting_lba = first_usable_lba - 1 and ending_lba
\* = last_usable_lba + 1, a dos device starting_lba = 0 and ending_lba =
\* size / sector size; a device without partitions has one Free region, from
\* the smallest multiple of DEFAULT_ALIGN that is at least starting_lba + 1
\* to ending_lba - 1.
C29_SentinelsAndWholeFree ==
    Listed =>
        \A i \in 1..Len(blockdevices) :
            LET dev == blockdevices[i]
                d == new_from(dev)
            IN  d.kind = "Compatible" =>
                    /\ dev.pttype = "gpt" =>
                          /\ d.disk.starting_lba = dev.first_usable_lba - 1
                          /\ d.disk.ending_lba = dev.last_usable_lba + 1
                    /\ dev.pttype = "dos" =>
                          /\ d.disk.starting_lba = 0
                          /\ d.disk.ending_lba = dev.size \div dev.log_sec
                    /\ Partitions(d.mem_table) = {} =>
                          /\ Len(d.mem_table) = 1
                          /\ IsFree(d.mem_table[1])
                          /\ d.mem_table[1].end = d.disk.ending_lba - 1
                          /\ d.mem_table[1].start % DEFAULT_ALIGN = 0
                          /\ d.mem_table[1].start >= d.disk.starting_lba + 1
                          /\ d.mem_table[1].start - DEFAULT_ALIGN
                                < d.disk.starting_lba + 1

\* A GPT disk and a dos disk without partitions are listed, and the first
\* is shown with its one Free region.
C29_Witness ==
    /\ pc = "ready"
    /\ Len(blockdevices) = 2
    /\ blockdevices[1].pttype = "gpt"
    /\ blockdevices[2].pttype = "dos"
    /\ Len(devices) = 2
    /\ devices[1].kind = "Compatible"
    /\ devices[2].kind = "Compatible"
    /\ Len(mem_table) = 1
    /\ IsFree(mem_table[1])
    /\ mem_table[1].end = disk.ending_lba - 1

\* Entries 1 .. lo - 1 of the old table are the same entries of the new
\* one, and entries hi + 1 .. of the old table follow in the new one, moved
\* by the change in length.
FrameKept(old, new, lo, hi) ==
    /\ \A i \in 1..(lo - 1) : i <= Len(new) /\ new[i] = old[i]
    /\ \A i \in (hi + 1)..Len(old) :
          /\ i + Len(new) - Len(old) \in 1..Len(new)
          /\ new[i + Len(new) - Len(old)] = old[i]

\* C30: a create replaces the selected Free region by a Partition, with at
\* most one Free region inserted after it, and a delete that completes
\* touches only the selected Partition and the Free regions next to it;
\* every other entry of the table stays as it is, in the same order.
C30_OtherRegionsKept ==
    /\ InCreate =>
          \A text \in SizeTexts :
              LET r == Outcome(text)
                  p == last_selected + 1
              IN  /\ r.done =>
                         /\ Len(r.table) - Len(mem_table) \in {0, 1}
                         /\ IsPartition(r.table[p])
                         /\ (Len(r.table) = Len(mem_table) + 1
                                => IsFree(r.table[p + 1]))
                         /\ \A i \in 1..(p - 1) : r.table[i] = mem_table[i]
                         /\ \A i \in (p + 1)..Len(mem_table) :
                               r.table[i + Len(r.table) - Len(mem_table)]
                                  = mem_table[i]
                  /\ ~r.done => r.table = mem_table
    /\ InMenu =>
          \A selected \in PartitionRows :
              LET r == delete_entries(mem_table, selected)
                  lo == IF PrevFree(selected) THEN selected ELSE selected + 1
                  hi == IF NextFree(selected) THEN selected + 2 ELSE selected + 1
              IN  r.ok =>
                      /\ Len(r.table) = Len(mem_table) - (hi - lo)
                      /\ IsFree(r.table[lo])
                      /\ FrameKept(mem_table, r.table, lo, hi)

\* A delete has completed between two partitions it left alone: the Free
\* region it made or extended lies between a Partition and a Partition.
C30_Witness ==
    /\ pc = "ready"
    /\ op = "delete"
    /\ \E k \in {last_selected, last_selected + 1} :
          /\ k >= 2
          /\ k + 1 <= Len(mem_table)
          /\ IsFree(mem_table[k])
          /\ IsPartition(mem_table[k - 1])
          /\ IsPartition(mem_table[k + 1])

\* C31: once the devices are loaded, and after every create and delete,
\* every entry of the table, Partition or Free, holds end - start + 1
\* sectors.
C31_SectorsMatchBounds ==
    pc = "ready" =>
        \A i \in 1..Len(mem_table) :
            mem_table[i].sectors = mem_table[i].end - mem_table[i].start + 1

\* A delete has extended a Free region over the partition deleted, and a
\* Partition is left in the table.
C31_Witness ==
    /\ pc = "ready"
    /\ op = "delete"
    /\ Partitions(mem_table) # {}
    /\ \E i \in Frees(mem_table) :
          /\ i \in {last_selected, last_selected + 1}
          /\ mem_table[i].sectors > Grain
          /\ mem_table[i].sectors = mem_table[i].end - mem_table[i].start + 1

\* The children of a descriptor that are partitions and mounted.
Mounted(dev) ==
    {i \in 1..Len(dev.children) :
        /\ dev.children[i].devtype = "part"
        /\ dev.children[i].mountpoint # "none"}

\* C32: in a Compatible device as new_from builds it, no Free region holds
\* a sector of a mounted partition of the disk, and number_pool has the
\* number of every mounted partition marked, so that no create takes it.
C32_MountedPartitionsKeptOut ==
    Listed =>
        \A i \in 1..Len(blockdevices) :
            LET dev == blockdevices[i]
                d == new_from(dev)
            IN  d.kind = "Compatible" =>
                    \A c \in Mounted(dev) :
                        LET first == dev.children[c].start
                            last == dev.children[c].start
                                    + (dev.children[c].size \div dev.log_sec) - 1
                        IN  /\ \A f \in Frees(d.mem_table) :
                                  \/ d.mem_table[f].end < first
                                  \/ d.mem_table[f].start > last
                            /\ dev.children[c].partn - 1 \in d.number_pool

\* C33: a delete of a Partition completes at every index of the table,
\* also at an index that is no slot of number_pool: the handler never ends
\* with the pool indexed out of range.
C33_DeleteNeverOutOfRange ==
    ~(pc = "panicked" /\ op = "index out of bounds")

\* The menu item the editor has selected ("none" when the menu has no
\* selection).
CurrentItem ==
    IF view.menu.selected \in 0..(Len(view.items) - 1)
    THEN view.items[view.menu.selected + 1] ELSE "none"

\* The entry of the table the editor recorded at the last render is of kind k.
RecordedIs(k) ==
    /\ devices # <<>>
    /\ devices[1].kind = "Compatible"
    /\ last_selected \in 0..(Len(mem_table) - 1)
    /\ mem_table[last_selected + 1].kind = k

\* C34: in the render / key-event loop, whenever the editor is about to
\* execute a delete (Menu focus with "Delete partition" selected) the entry at
\* the recorded selection is a Partition, whenever it is about to execute a
\* submitted create (Create focus) that entry is a Free region of a
\* Compatible device, and so neither irrefutable pattern ever fails.
C34_HandlersFindTheirRegion ==
    /\ ~(pc = "panicked" /\ op = "irrefutable pattern")
    /\ (pc = "ready" /\ focus = "Menu" /\ CurrentItem = "Delete partition")
           => RecordedIs("Partition")
    /\ (pc = "ready" /\ focus = "Create") => RecordedIs("Free")

\* A count is about to be submitted below a partition the loop created, a
\* delete having been executed before.
C34_Witness ==
    /\ pc = "ready"
    /\ op = "delete"
    /\ focus = "Create"
    /\ view.input = Digits(DEFAULT_ALIGN) \o <<"S">>
    /\ RecordedIs("Free")
    /\ Partitions(mem_table) # {}

\* C35: Enter on an item of the editor menu never reaches the unreachable!()
\* branch of handle_menu.
C35_MenuEnterNeverUnreachable ==
    ~(pc = "panicked" /\ op = "unreachable")

\* C36: whenever the focus of the editor is Menu the size input is empty,
\* and a step that takes the focus from Menu to Create leaves exactly "*" in
\* the size input.
C36_MenuFocusEmptyInput ==
    /\ [](focus = "Menu" => view.input = <<>>)
    /\ [][(focus = "Menu" /\ focus' = "Create") => view'.input = <<"*">>]_vars

\* The loop is back in the menu after a create went through.
C36_Witness ==
    /\ pc = "ready"
    /\ op = "create"
    /\ focus = "Menu"
    /\ view.focus = "Editor"
    /\ view.input = <<>>
    /\ RecordedIs("Partition")

\* C37: after every render that follows a create or a delete, the table
\* has no selection exactly when the list is empty, a selection is below the
\* length of the list, the editor has recorded that selection, and the
\* render did not index the list out of range.
C37_SelectionInRange ==
    /\ ~(pc = "panicked" /\ op = "index out of bounds")
    /\ (pc = "ready" /\ op \in {"create", "delete"}) =>
           /\ view.table.selected = -1 <=> mem_table = <<>>
           /\ view.table.selected < Len(mem_table)
           /\ last_selected = view.table.selected

\* A delete left one Free region with the number 1 still marked used: the
\* entry deleted was not the first one, so the list became shorter than the
\* selection, and the selection is on the region that is left.
C37_Witness ==
    /\ pc = "ready"
    /\ op = "delete"
    /\ view.focus = "Editor"
    /\ Len(mem_table) = 1
    /\ IsFree(mem_table[1])
    /\ 0 \in number_pool
    /\ view.table.selected = 0

====
